---- MODULE Spec2Model ----
(***************************************************************************)
(* A model of the RISC-V emulator of src/ver3.cpp: class RiscVEmu with its *)
(* registers, pc and memory, and the operations load_program, run, fetch,  *)
(* decode and execute.                                                     *)
(*                                                                         *)
(* A 32-bit value (uint32_t or int32_t) is the integer in -2^31 .. 2^31-1  *)
(* that has its bit pattern in two's complement: a uint32_t below 2^31 is  *)
(* itself, a uint32_t v from 2^31 on is v - 2^32 (0xFFFFFFFF is -1).  The  *)
(* operators below compute on the two 16-bit halves of the pattern, so     *)
(* that all 32 bits are kept and arithmetic wraps modulo 2^32 as in the    *)
(* code.                                                                   *)
(***************************************************************************)
EXTENDS Integers, Sequences, FiniteSets, TLC

\* ------------------------------------------------------------------------
\* 32-bit words
\* ------------------------------------------------------------------------

\* 2^16: the weight of the high half of a word.
H == 2^16

\* The high and the low 16 bits of a word's bit pattern.
Hi(w) == (w \div H) % H
Lo(w) == w % H

\* The word whose bit pattern has the halves hi and lo.
Word(hi, lo) == (IF hi >= 2^15 THEN hi - H ELSE hi) * H + lo

\* uint32_t addition, wrapping modulo 2^32.
Add32(a, b) ==
    LET lo == Lo(a) + Lo(b)
        hi == Hi(a) + Hi(b) + (lo \div H)
    IN  Word(hi % H, lo % H)

\* uint32_t subtraction, wrapping modulo 2^32.
Sub32(a, b) ==
    LET borrow == IF Lo(a) < Lo(b) THEN 1 ELSE 0
    IN  Word((H + Hi(a) - Hi(b) - borrow) % H, (H + Lo(a) - Lo(b)) % H)

RECURSIVE BitAnd(_, _)
\* Bitwise and of two naturals.
BitAnd(a, b) ==
    IF a = 0 \/ b = 0 THEN 0
    ELSE (IF a % 2 = 1 /\ b % 2 = 1 THEN 1 ELSE 0) + 2 * BitAnd(a \div 2, b \div 2)

RECURSIVE BitOr(_, _)
\* Bitwise or of two naturals.
BitOr(a, b) ==
    IF a = 0 THEN b
    ELSE IF b = 0 THEN a
    ELSE (IF a % 2 = 1 \/ b % 2 = 1 THEN 1 ELSE 0) + 2 * BitOr(a \div 2, b \div 2)

\* The operators &, | and ~ on 32-bit values.
And32(a, b) == Word(BitAnd(Hi(a), Hi(b)), BitAnd(Lo(a), Lo(b)))
Or32(a, b) == Word(BitOr(Hi(a), Hi(b)), BitOr(Lo(a), Lo(b)))
Not32(a) == Word(H - 1 - Hi(a), H - 1 - Lo(a))

\* uint32_t >> k (logical), 0 <= k <= 31.
Shr32(a, k) ==
    IF k >= 16 THEN Word(0, Hi(a) \div 2^(k - 16))
    ELSE Word(Hi(a) \div 2^k, (Lo(a) \div 2^k) + (Hi(a) % 2^k) * 2^(16 - k))

\* int32_t >> k (arithmetic: the sign bit fills the vacated bits).
Sar32(a, k) ==
    IF a < 0 THEN Not32(Shr32(Not32(a), k)) ELSE Shr32(a, k)

\* << k on a 32-bit value, 0 <= k <= 31; bits shifted out at the top are
\* lost.
Shl32(a, k) ==
    IF k >= 16 THEN Word((Lo(a) * 2^(k - 16)) % H, 0)
    ELSE Word((Hi(a) * 2^k + (Lo(a) * 2^k) \div H) % H, (Lo(a) * 2^k) % H)

\* Bit i (0..31) of a word.
Bit(w, i) == IF i >= 16 THEN (Hi(w) \div 2^(i - 16)) % 2 ELSE (Lo(w) \div 2^i) % 2

\* ------------------------------------------------------------------------
\* enum OPCODES, enum FUNT3_CODES
\* ------------------------------------------------------------------------
LUI == 55
AUIPC == 23
JAL == 111
JALR == 103
ALU_IMM == 19
ALU_REG == 51
ADD_SUB == 0

\* The number of registers (registers.resize(32, 0)).
NumRegs == 32

\* The default memory size of the constructor.
DefaultMemSize == 1024

\* ------------------------------------------------------------------------
\* decode
\* ------------------------------------------------------------------------

\* The J-type immediate with instruction bits[19:12] put back at bits[19:12]
\* (the standard layout).
JalImmShifted(instruction) ==
    Or32(Or32(Or32(Shl32(And32(Shr32(instruction, 12), 255), 12),
                   Shl32(And32(Shr32(instruction, 20), 1), 11)),
              Shl32(And32(Shr32(instruction, 21), 1023), 1)),
         Shl32(Sar32(instruction, 31), 20))

\* The J-type immediate as decode assembles it.
JalImm(instruction) ==
    Or32(Or32(Or32(And32(Shr32(instruction, 12), 255),
                   Shl32(And32(Shr32(instruction, 20), 1), 11)),
              Shl32(And32(Shr32(instruction, 21), 1023), 1)),
         Shl32(Sar32(instruction, 31), 20))

\* A decode whose I-type immediate is shifted as unsigned (zero-extended).
DecodeImmZeroExtend(opcode, instruction) ==
    CASE opcode = ALU_IMM \/ opcode = JALR -> Shr32(instruction, 20)
      [] opcode = AUIPC \/ opcode = LUI -> And32(instruction, -4096)
      [] opcode = JAL -> JalImm(instruction)
      [] OTHER -> 0

\* The immediate decode chooses by opcode (the switch of decode).
DecodeImm(opcode, instruction) ==
    CASE opcode = ALU_IMM \/ opcode = JALR -> Sar32(instruction, 20)
      [] opcode = AUIPC \/ opcode = LUI -> And32(instruction, -4096)
      [] opcode = JAL -> JalImm(instruction)
      [] OTHER -> 0

\* A decode whose rd mask is six bits wide (0x3F).
decodeWideRd(instruction) ==
    LET opcode == And32(instruction, 127)
    IN  [opcode |-> opcode,
         rd     |-> And32(Shr32(instruction, 7), 63),
         funct3 |-> And32(Shr32(instruction, 12), 7),
         rs1    |-> And32(Shr32(instruction, 15), 31),
         rs2    |-> And32(Shr32(instruction, 20), 31),
         funct7 |-> And32(Shr32(instruction, 25), 127),
         imm    |-> DecodeImm(opcode, instruction)]

decode(instruction) ==
    LET opcode == And32(instruction, 127)
    IN  [opcode |-> opcode,
         rd     |-> And32(Shr32(instruction, 7), 31),
         funct3 |-> And32(Shr32(instruction, 12), 7),
         rs1    |-> And32(Shr32(instruction, 15), 31),
         rs2    |-> And32(Shr32(instruction, 20), 31),
         funct7 |-> And32(Shr32(instruction, 25), 127),
         imm    |-> DecodeImm(opcode, instruction)]

\* ------------------------------------------------------------------------
\* Instruction words (the encoding of the fields decode extracts)
\* ------------------------------------------------------------------------
Enc(funct7, rs2, rs1, funct3, rd, opcode) ==
    Word(funct7 * 512 + rs2 * 16 + (rs1 \div 2),
         (rs1 % 2) * 32768 + funct3 * 4096 + rd * 128 + opcode)

NOP == Enc(0, 0, 0, ADD_SUB, 0, ALU_IMM)

\* The program of main(): 0x00000013, 0x00500113, 0x00600193, 0x003101B3.
MainProgram == << 19, 5243155, 6291859, 3211699 >>

\* ------------------------------------------------------------------------
\* Bounds of the model
\* ------------------------------------------------------------------------

\* The two memory sizes the constructor is called with besides the default.
SmallMem == 6
LargeMem == 14

\* A run is followed for at most memory.size() + MaxExtraCycles fetches (a
\* run without jumps needs memory.size() of them; only a looping run is cut).
MaxExtraCycles == 2

\* The memory size of the emulator that runs one instruction word alone.
WordMem == 2

\* Calls of load_program and of run a caller makes on one emulator.
MaxLoads == 2
MaxRuns == 2

\* ------------------------------------------------------------------------
\* State
\* ------------------------------------------------------------------------
VARIABLES
    registers,    \* std::vector<uint32_t> registers : 0..31 -> word
    pc,           \* uint32_t pc
    memory,       \* std::vector<uint32_t> memory : a sequence of words;
                  \* memory[i] of the code is MemAt(memory, i)
    ctl,          \* where the caller / run() is: "idle", "loop", "fetched",
                  \* "decoded", "returned"
    instruction,  \* run()'s local: the word fetch returned
    dec,          \* run()'s local: the tuple decode returned
    cycles,       \* fetches performed by the current call of run()
    fetchIdx,     \* the memory index the last fetch read (-1: none yet)
    prevIdx,      \* the memory index the fetch before that read (-1: none)
    mem0,         \* the memory contents when run() was called
    program,      \* the argument of the last load_program call
    nloads,       \* calls of load_program so far
    nruns         \* calls of run so far

vars == <<registers, pc, memory, ctl, instruction, dec, cycles, fetchIdx,
          prevIdx, mem0, program, nloads, nruns>>

\* memory.size()
MemSize == Len(memory)

\* mem[i] of a vector, 0 <= i < mem.size().
MemAt(mem, i) == mem[i + 1]

\* RiscVEmu(memory_size): 32 zero registers, pc = 0, zero-filled memory.
RiscVEmu(memory_size) ==
    /\ registers = [i \in 0 .. NumRegs - 1 |-> 0]
    /\ pc = 0
    /\ memory = [i \in 1 .. memory_size |-> 0]
    /\ ctl = "idle"
    /\ instruction = 0
    /\ dec = decode(0)
    /\ cycles = 0
    /\ fetchIdx = -1
    /\ prevIdx = -1
    /\ mem0 = memory
    /\ program = << >>
    /\ nloads = 0
    /\ nruns = 0

\* ------------------------------------------------------------------------
\* load_program
\* ------------------------------------------------------------------------

\* A load that also clears the words after the program.
LoadedMemoryCleared(mem, prog) ==
    [i \in 1 .. Len(mem) |-> IF i <= Len(prog) THEN prog[i] ELSE 0]

\* The memory after the copy loop: memory[i] = program[i] for i < size().
LoadedMemory(mem, prog) ==
    [i \in 1 .. Len(mem) |-> IF i <= Len(prog) THEN prog[i] ELSE mem[i]]

\* load_program(prog), called while no run is in progress.  A program longer
\* than the memory writes past the end of the vector (undefined behaviour);
\* the callers modelled here respect prog.size() <= memory.size().
load_program(prog) ==
    /\ ctl \in {"idle", "returned"}
    /\ Len(prog) <= MemSize
    /\ memory' = LoadedMemory(memory, prog)
    /\ program' = prog
    /\ nloads' = nloads + 1
    /\ ctl' = "idle"
    /\ UNCHANGED <<registers, pc, instruction, dec, cycles, fetchIdx, prevIdx, mem0, nruns>>

\* ------------------------------------------------------------------------
\* run, fetch
\* ------------------------------------------------------------------------

\* A loop condition that lets pc = memory.size() through (<= for <).
RunCondInclusive(p, size) ==
    0 <= p /\ p <= size

\* The loop condition of run(): pc < memory.size(), compared as size_t: a pc
\* with bit 31 set (negative here) is 2^31 or more, above every size modelled.
RunCond(p, size) ==
    0 <= p /\ p < size

\* The words memory[p] can yield: the word stored there, or, for an index
\* outside the vector (which run()'s loop condition excludes), any value.
MemRead(mem, p) ==
    IF 0 <= p /\ p < Len(mem) THEN {MemAt(mem, p)} ELSE {0, NOP}

\* A fetch that leaves pc where it is.
FetchPcStay(p) == p

\* A fetch that steps pc by the byte size of an instruction.
FetchPcByteStep(p) == Add32(p, 4)

\* The pc after fetch's pc++.
FetchPc(p) == Add32(p, 1)

\* The caller enters run().
run ==
    /\ ctl \in {"idle", "returned"}
    /\ ctl' = "loop"
    /\ cycles' = 0
    /\ mem0' = memory
    /\ nruns' = nruns + 1
    /\ UNCHANGED <<registers, pc, memory, instruction, dec, fetchIdx, prevIdx, program, nloads>>

\* The loop condition holds: uint32_t instruction = fetch();
run_fetch ==
    /\ ctl = "loop"
    /\ RunCond(pc, MemSize)
    /\ cycles < MemSize + MaxExtraCycles
    /\ instruction' \in MemRead(memory, pc)
    /\ fetchIdx' = pc
    /\ prevIdx' = fetchIdx
    /\ pc' = FetchPc(pc)
    /\ cycles' = cycles + 1
    /\ ctl' = "fetched"
    /\ UNCHANGED <<registers, memory, dec, mem0, program, nloads, nruns>>

\* auto [...] = decode(instruction);
run_decode ==
    /\ ctl = "fetched"
    /\ dec' = decode(instruction)
    /\ ctl' = "decoded"
    /\ UNCHANGED <<registers, pc, memory, instruction, cycles, fetchIdx, prevIdx, mem0,
                   program, nloads, nruns>>

\* ------------------------------------------------------------------------
\* execute
\* ------------------------------------------------------------------------

\* A register write that keeps register 0 hard-wired to zero.
SetRegHardwiredZero(regs, rd, value) ==
    IF rd = 0 THEN regs ELSE [regs EXCEPT ![rd] = value]

\* registers[rd] = value
SetReg(regs, rd, value) == [regs EXCEPT ![rd] = value]

\* A JALR that does not clear the low bit of the target.
ExecJalrNoMask(d, regs, p) ==
    LET regs1 == [regs EXCEPT ![d.rd] = p]
    IN  [registers |-> regs1, pc |-> Add32(regs1[d.rs1], d.imm)]

\* The JALR case: registers[rd] = pc; pc = (registers[rs1] + imm) & ~1;
\* the target is read from the registers after rd has been written.
ExecJalr(d, regs, p) ==
    LET regs1 == SetReg(regs, d.rd, p)
    IN  [registers |-> regs1,
         pc |-> And32(Add32(regs1[d.rs1], d.imm), -2)]

\* An ALU_REG case whose funct7 tests are exchanged (ADD subtracts).
ExecAluRegSwapped(d, regs, p) ==
    IF d.funct3 = ADD_SUB /\ d.funct7 = 32
    THEN [registers |-> SetReg(regs, d.rd, Add32(regs[d.rs1], regs[d.rs2])), pc |-> p]
    ELSE IF d.funct3 = ADD_SUB /\ d.funct7 = 0
    THEN [registers |-> SetReg(regs, d.rd, Sub32(regs[d.rs1], regs[d.rs2])), pc |-> p]
    ELSE [registers |-> regs, pc |-> p]

\* An ALU_REG case that copies rs1 into rd and then accumulates rs2 into it
\* (rs2 is read after rd has been written).
ExecAluRegAccumulate(d, regs, p) ==
    LET regs1 == [regs EXCEPT ![d.rd] = regs[d.rs1]]
    IN  IF d.funct3 = ADD_SUB /\ d.funct7 = 0
        THEN [registers |-> [regs1 EXCEPT ![d.rd] = Add32(regs1[d.rd], regs1[d.rs2])], pc |-> p]
        ELSE IF d.funct3 = ADD_SUB /\ d.funct7 = 32
        THEN [registers |-> [regs1 EXCEPT ![d.rd] = Sub32(regs1[d.rd], regs1[d.rs2])], pc |-> p]
        ELSE [registers |-> regs, pc |-> p]

\* The ALU_REG case.
ExecAluReg(d, regs, p) ==
    IF d.funct3 = ADD_SUB /\ d.funct7 = 0
    THEN [registers |-> SetReg(regs, d.rd, Add32(regs[d.rs1], regs[d.rs2])), pc |-> p]
    ELSE IF d.funct3 = ADD_SUB /\ d.funct7 = 32
    THEN [registers |-> SetReg(regs, d.rd, Sub32(regs[d.rs1], regs[d.rs2])), pc |-> p]
    ELSE [registers |-> regs, pc |-> p]

\* An ALU_IMM case without the funct3 test (every I-type ALU word adds).
ExecAluImmAnyFunct3(d, regs, p) ==
    [registers |-> [regs EXCEPT ![d.rd] = Add32(regs[d.rs1], d.imm)], pc |-> p]

\* The ALU_IMM case.
ExecAluImm(d, regs, p) ==
    IF d.funct3 = ADD_SUB
    THEN [registers |-> SetReg(regs, d.rd, Add32(regs[d.rs1], d.imm)), pc |-> p]
    ELSE [registers |-> regs, pc |-> p]

\* A JAL that jumps first and links afterwards (rd receives the target).
ExecJalLinkAfterJump(d, regs, p) ==
    [registers |-> SetReg(regs, d.rd, Add32(p, d.imm)), pc |-> Add32(p, d.imm)]

\* A JAL whose target is relative to the index of the JAL itself.
ExecJalFromOwnIndex(d, regs, p) ==
    [registers |-> SetReg(regs, d.rd, p), pc |-> Add32(Sub32(p, 1), d.imm)]

\* The JAL case: registers[rd] = pc; pc += imm;
ExecJal(d, regs, p) ==
    [registers |-> SetReg(regs, d.rd, p), pc |-> Add32(p, d.imm)]

\* An execute whose AUIPC adds the immediate to the index of the AUIPC itself.
executeAuipcOwnIndex(d, regs, p) ==
    CASE d.opcode = LUI -> [registers |-> SetReg(regs, d.rd, d.imm), pc |-> p]
      [] d.opcode = AUIPC ->
            [registers |-> SetReg(regs, d.rd, Add32(Sub32(p, 1), d.imm)), pc |-> p]
      [] d.opcode = JAL -> ExecJal(d, regs, p)
      [] d.opcode = JALR -> ExecJalr(d, regs, p)
      [] d.opcode = ALU_IMM -> ExecAluImm(d, regs, p)
      [] d.opcode = ALU_REG -> ExecAluReg(d, regs, p)
      [] OTHER -> [registers |-> regs, pc |-> p]

\* execute(opcode, rd, funct3, rs1, rs2, funct7, imm) on registers regs and
\* program counter p: the registers and the pc it leaves.
execute(d, regs, p) ==
    CASE d.opcode = LUI -> [registers |-> SetReg(regs, d.rd, d.imm), pc |-> p]
      [] d.opcode = AUIPC -> [registers |-> SetReg(regs, d.rd, Add32(p, d.imm)), pc |-> p]
      [] d.opcode = JAL -> ExecJal(d, regs, p)
      [] d.opcode = JALR -> ExecJalr(d, regs, p)
      [] d.opcode = ALU_IMM -> ExecAluImm(d, regs, p)
      [] d.opcode = ALU_REG -> ExecAluReg(d, regs, p)
      [] OTHER -> [registers |-> regs, pc |-> p]

\* An execute whose LUI case stores the immediate in memory[rd] as well.
ExecMemoryLuiStores(d, mem) ==
    IF d.opcode = LUI /\ d.rd < Len(mem) THEN [mem EXCEPT ![d.rd + 1] = d.imm] ELSE mem

\* The memory execute leaves: no case of the switch writes memory.
ExecMemory(d, mem) == mem

\* execute(opcode, rd, funct3, rs1, rs2, funct7, imm); back to the loop test.
run_execute ==
    /\ ctl = "decoded"
    /\ registers' = execute(dec, registers, pc).registers
    /\ pc' = execute(dec, registers, pc).pc
    /\ memory' = ExecMemory(dec, memory)
    /\ ctl' = "loop"
    /\ UNCHANGED <<instruction, dec, cycles, fetchIdx, prevIdx, mem0, program, nloads, nruns>>

\* The loop condition fails: run() returns.
run_return ==
    /\ ctl = "loop"
    /\ ~RunCond(pc, MemSize)
    /\ ctl' = "returned"
    /\ UNCHANGED <<registers, pc, memory, instruction, dec, cycles, fetchIdx, prevIdx,
                   mem0, program, nloads, nruns>>

\* One step of run().
RunStep == run_fetch \/ run_decode \/ run_execute \/ run_return

\* ------------------------------------------------------------------------
\* The programs callers load
\* ------------------------------------------------------------------------

\* Instruction words, by field: the six opcodes of enum OPCODES and two
\* opcodes outside it (LOAD 0000011, BRANCH 1100011); funct7 values 0000000,
\* 0100000, 0000001 and 1111111 (the last sets bit 31).
Opcodes == {LUI, AUIPC, JAL, JALR, ALU_IMM, ALU_REG, 3, 99}
Words ==
    {Enc(f7, rs2, rs1, f3, rd, op) :
        f7 \in {0, 32, 1, 127}, rs2 \in {0, 1}, rs1 \in {0, 1},
        f3 \in {0, 1}, rd \in {0, 1}, op \in Opcodes}

\* Instructions run before the word under study: none, or
\*   ADDI x1,x0,-1 ; ADDI x0,x0,5     (R[1] = 0xFFFFFFFF, R[0] = 5)
Prefixes ==
    { << >>,
      << Enc(127, 31, 0, ADD_SUB, 1, ALU_IMM), Enc(0, 5, 0, ADD_SUB, 0, ALU_IMM) >> }

\* Four NOPs, then JAL x1 with immediate 8 at index 4.
JalAt4Program == << NOP, NOP, NOP, NOP, Enc(0, 8, 0, 0, 1, JAL) >>

\* ADDI x0,x0,5 ; ADDI x2,x0,0
X0Program == << Enc(0, 5, 0, ADD_SUB, 0, ALU_IMM), Enc(0, 0, 0, ADD_SUB, 2, ALU_IMM) >>

\* JALR x0,x0,0 at index 0.
LoopProgram == << Enc(0, 0, 0, 0, 0, JALR) >>

\* NOP ; JALR x5,x0,0 : a jump back to the earlier index 0.
BackLoopProgram == << NOP, Enc(0, 0, 0, 0, 5, JALR) >>

\* ADDI x2,x0,5 ; ADDI x3,x0,6 ; SUB x3,x3,x2
SubProgram ==
    << Enc(0, 5, 0, ADD_SUB, 2, ALU_IMM), Enc(0, 6, 0, ADD_SUB, 3, ALU_IMM),
       Enc(32, 2, 3, ADD_SUB, 3, ALU_REG) >>

\* NOP ; JAL x0 with every immediate bit of the word set (0xFFFFF06F, the
\* standard encoding of a jump back by 2).
JalBackProgram == << NOP, Enc(127, 31, 31, 7, 0, JAL) >>

Programs ==
    {pre \o <<w>> : pre \in Prefixes, w \in Words}
        \cup {MainProgram, JalAt4Program, X0Program, LoopProgram, BackLoopProgram,
              SubProgram, JalBackProgram}

\* Instruction words with every field at its ends and in between (register
\* indices 0, 1, 16 and 31; funct3 0, 1 and 7; funct7 with bit 31 clear and
\* set).
AllWords ==
    {Enc(f7, rs2, rs1, f3, rd, op) :
        f7 \in {0, 1, 32, 64, 127}, rs2 \in {0, 1, 16, 31}, rs1 \in {0, 1, 16, 31},
        f3 \in {0, 1, 7}, rd \in {0, 1, 16, 31}, op \in Opcodes}

\* The programs of a caller that loads and runs repeatedly.
ReusePrograms == {MainProgram, X0Program, JalAt4Program, << NOP >>, << >>}

\* ------------------------------------------------------------------------
\* Specifications
\* ------------------------------------------------------------------------

\* main()'s call sequence (construct, load_program once, run once), for the
\* memory sizes SmallMem and LargeMem and every program of Programs.
Init == \E n \in {SmallMem, LargeMem} : RiscVEmu(n)

main_load == nloads = 0 /\ nruns = 0 /\ \E prog \in Programs : load_program(prog)

main_run == nruns = 0 /\ run

Next == main_load \/ main_run \/ run_fetch \/ run_decode \/ run_execute \/ run_return

Spec == Init /\ [][Next]_vars

\* main() itself: RiscVEmu emulator; emulator.load_program(program);
\* emulator.run();
InitMain == RiscVEmu(DefaultMemSize)

main_load_program == nloads = 0 /\ nruns = 0 /\ load_program(MainProgram)

main_emulator_run == nloads = 1 /\ nruns = 0 /\ run

NextMain ==
    main_load_program \/ main_emulator_run \/ run_fetch \/ run_decode
        \/ run_execute \/ run_return

SpecMain == InitMain /\ [][NextMain]_vars

\* A caller that calls load_program and run repeatedly, in any order.
reuse_load == nloads < MaxLoads /\ \E prog \in ReusePrograms : load_program(prog)

reuse_run == nruns < MaxRuns /\ run

NextReuse ==
    reuse_load \/ reuse_run \/ run_fetch \/ run_decode \/ run_execute \/ run_return

SpecReuse == Init /\ [][NextReuse]_vars

\* One instruction word alone: an emulator of WordMem words is loaded with a
\* one-word program, for every word of AllWords, and run.
InitWord == RiscVEmu(WordMem)

word_load == nloads = 0 /\ nruns = 0 /\ \E w \in AllWords : load_program(<<w>>)

word_run == nloads = 1 /\ nruns = 0 /\ run

NextWord == word_load \/ word_run \/ run_fetch \/ run_decode \/ run_execute \/ run_return

SpecWord == InitWord /\ [][NextWord]_vars

\* A run() that takes every step the code takes: run() is a blocking call
\* of a single thread, so a step that is possible is eventually taken.
SpecFair == Spec /\ WF_vars(run_fetch \/ run_decode \/ run_execute \/ run_return)

\* ------------------------------------------------------------------------
\* Properties
\* ------------------------------------------------------------------------

\* pc is an index of memory.
PcInMemory == 0 <= pc /\ pc < Len(memory)

\* No word of prog decodes to a JAL or a JALR.
NoJumps(prog) ==
    \A i \in 1 .. Len(prog) : decode(prog[i]).opcode \notin {JAL, JALR}

\* The first call of run(), made after one load_program of a program
\* without jumps, is in progress or has returned.
JumpFreeRun ==
    /\ nloads = 1
    /\ nruns = 1
    /\ NoJumps(program)
    /\ ctl \in {"loop", "fetched", "decoded", "returned"}

\* C1, as stated: run() on a loaded program of N words without JAL/JALR
\* terminates after exactly N fetch cycles.
C1_ExactlyLenCycles ==
    (JumpFreeRun /\ ctl = "returned") => cycles = Len(program)

\* C1, amended: run() on a freshly constructed emulator loaded with a
\* program without JAL/JALR terminates after exactly memory.size() fetch
\* cycles: at the loop test pc equals the number of fetches so far, the run
\* has returned only after memory.size() fetches, and it does return.
C1_ExactlyMemSizeCycles ==
    /\ [](JumpFreeRun =>
            /\ cycles <= MemSize
            /\ ctl \in {"loop", "returned"} => pc = cycles
            /\ ctl = "returned" => cycles = MemSize)
    /\ (JumpFreeRun ~> ctl = "returned")

\* C1's case: a program shorter than the memory has run to the end.
C1_Witness ==
    /\ JumpFreeRun
    /\ ctl = "returned"
    /\ 0 < Len(program)
    /\ Len(program) < MemSize
    /\ cycles = MemSize

\* C2: a fetch happens only at pc < memory.size() and reads memory[pc], so
\* no word outside the memory is read; run() returns exactly at the first
\* loop test at which pc >= memory.size().
C2_FetchInBounds ==
    /\ [](ctl \in {"fetched", "decoded"} => fetchIdx \in 0 .. Len(memory) - 1)
    /\ [][(ctl = "loop" /\ ctl' = "fetched") =>
            (PcInMemory /\ fetchIdx' = pc /\ instruction' = MemAt(memory, pc))]_vars
    /\ [][(ctl = "loop" /\ ~PcInMemory) => ctl' = "returned"]_vars
    /\ [][(ctl = "loop" /\ ctl' = "returned") => ~PcInMemory]_vars

\* C2's case: a jump has produced a pc far outside the memory and run() has
\* returned before reaching the end of the memory.
C2_Witness ==
    /\ ctl = "returned"
    /\ dec.opcode \in {JAL, JALR}
    /\ (pc < 0 \/ pc >= H)
    /\ cycles < MemSize

\* C3: main()'s program on the default emulator ends with R[2] = 5,
\* R[3] = 11 and R[1] = 0 (the registers have these values from the end of
\* the fourth cycle on, and when run() has returned).
C3_MainResult ==
    (ctl = "returned" \/ (ctl = "loop" /\ cycles >= Len(MainProgram))) =>
        /\ registers[2] = 5
        /\ registers[3] = 11
        /\ registers[1] = 0

\* C3's case: main()'s run has returned, after all 1024 words were fetched.
C3_Witness ==
    /\ ctl = "returned"
    /\ MemSize = DefaultMemSize
    /\ program = MainProgram
    /\ cycles = DefaultMemSize

\* The last executed instruction was a JAL with immediate 8.
LastWasJalImm8 == dec.opcode = JAL /\ dec.imm = 8

\* C4, as stated: a JAL fetched at index 4 with immediate 8 sets R[rd] = 5 and
\* the next instruction is fetched from index 12.
C4_NextFetchAt12 ==
    (ctl = "fetched" /\ prevIdx = 4 /\ LastWasJalImm8) =>
        (registers[dec.rd] = 5 /\ fetchIdx = 12)

\* C4, amended: a JAL fetched at index 4 with immediate 8 sets R[rd] = 5 and
\* pc = 13 (the post-fetch pc 5 plus 8), and the next instruction is fetched
\* from index 13.
C4_NextFetchAt13 ==
    /\ (ctl = "loop" /\ cycles > 0 /\ fetchIdx = 4 /\ LastWasJalImm8) =>
            (registers[dec.rd] = 5 /\ pc = 13)
    /\ (ctl = "fetched" /\ prevIdx = 4 /\ LastWasJalImm8) =>
            (registers[dec.rd] = 5 /\ fetchIdx = 13)

\* C4's case: the fetch that follows a JAL with immediate 8 fetched at 4.
C4_Witness ==
    /\ ctl = "fetched"
    /\ prevIdx = 4
    /\ LastWasJalImm8
    /\ fetchIdx = 13

\* C5: load_program(words) with words.size() <= memory.size() leaves
\* memory[i] = words[i] for i < words.size(), leaves every other memory word
\* as it was, and changes neither pc nor any register.
C5_LoadFrame ==
    [][nloads' # nloads =>
        /\ Len(memory') = Len(memory)
        /\ \A i \in 0 .. Len(memory) - 1 :
              MemAt(memory', i) = IF i < Len(program') THEN program'[i + 1]
                                  ELSE MemAt(memory, i)
        /\ pc' = pc
        /\ registers' = registers]_vars

\* C5's case: a second program, shorter than the first, has been loaded
\* after a run that changed pc and registers; words of the first program
\* remain after it.
C5_Witness ==
    /\ ctl = "idle"
    /\ nloads = 2
    /\ nruns = 1
    /\ Len(program) \in 1 .. 3
    /\ MemAt(memory, 3) = MainProgram[4]
    /\ pc # 0
    /\ registers[3] = 11

\* The decoded word is one the switch of execute has no effect for.
Unsupported(d) ==
    \/ d.opcode \notin {LUI, AUIPC, JAL, JALR, ALU_IMM, ALU_REG}
    \/ d.opcode \in {ALU_IMM, ALU_REG} /\ d.funct3 # 0
    \/ d.opcode = ALU_REG /\ d.funct3 = 0 /\ d.funct7 \notin {0, 32}

\* C6: a cycle on an unsupported word changes no register and no memory
\* word; its only effect is the fetch's pc := pc + 1.
C6_UnsupportedIsNoOp ==
    /\ [][(ctl = "loop" /\ ctl' = "fetched") =>
            (registers' = registers /\ memory' = memory /\ pc' = Add32(pc, 1))]_vars
    /\ [][(ctl = "fetched" /\ ctl' = "decoded") =>
            (registers' = registers /\ memory' = memory /\ pc' = pc)]_vars
    /\ [][(ctl = "decoded" /\ ctl' = "loop" /\ Unsupported(dec)) =>
            (registers' = registers /\ memory' = memory /\ pc' = pc
                /\ pc' = fetchIdx + 1)]_vars

\* C6's case: an unsupported word of each kind has been executed on
\* registers that are not all zero.
C6_Witness ==
    /\ ctl = "loop"
    /\ cycles > 0
    /\ Unsupported(dec)
    /\ dec.opcode = ALU_IMM
    /\ dec.imm # 0
    /\ registers[0] = 5
    /\ registers[1] = -1

\* The value the instruction d computes for R[rd], from the registers regs
\* and the post-fetch program counter p.
Result(d, regs, p) ==
    CASE d.opcode = LUI -> d.imm
      [] d.opcode = AUIPC -> Add32(p, d.imm)
      [] d.opcode \in {JAL, JALR} -> p
      [] d.opcode = ALU_IMM -> Add32(regs[d.rs1], d.imm)
      [] d.opcode = ALU_REG /\ d.funct7 = 0 -> Add32(regs[d.rs1], regs[d.rs2])
      [] d.opcode = ALU_REG /\ d.funct7 = 32 -> Sub32(regs[d.rs1], regs[d.rs2])

\* C7: register 0 is an ordinary register: a supported instruction with
\* rd = 0 stores its result in R[0], an instruction with rs1 = 0 or rs2 = 0
\* computes with the value R[0] holds, and ADDI x0,x0,5 ; ADDI x2,x0,0 ends
\* with R[2] = 5.
C7_RegisterZeroOrdinary ==
    /\ [][(ctl = "decoded" /\ ctl' = "loop" /\ ~Unsupported(dec)
             /\ (dec.rd = 0 \/ dec.rs1 = 0 \/ dec.rs2 = 0)) =>
            registers'[dec.rd] = Result(dec, registers, pc)]_vars
    /\ []((program = X0Program /\ nruns = 1 /\ ctl = "returned") =>
            (registers[0] = 5 /\ registers[2] = 5))

\* C7's case: ADDI x0,x0,5 ; ADDI x2,x0,0 has run to the end.
C7_Witness ==
    /\ program = X0Program
    /\ nruns = 1
    /\ ctl = "returned"
    /\ registers[0] = 5
    /\ registers[2] = 5

\* C8: during run() the memory keeps the contents it had when run() was
\* called.
C8_MemoryUnchanged ==
    ctl \in {"loop", "fetched", "decoded", "returned"} => memory = mem0

\* C8's case: a run that executed LUI, with a non-zero immediate, has
\* returned.
C8_Witness ==
    /\ ctl = "returned"
    /\ nloads = 1
    /\ cycles = MemSize
    /\ \E i \in 1 .. Len(program) :
          decode(program[i]).opcode = LUI /\ decode(program[i]).imm # 0

\* The run of a program that jumps back: JALR x0,x0,0 at index 0, or
\* NOP ; JALR x5,x0,0.
LoopingRun == nloads = 1 /\ nruns = 1 /\ program \in {LoopProgram, BackLoopProgram}

\* C9: the run of a program that jumps back to its own or an earlier index
\* never returns: pc stays inside the memory, and every pass of the loop
\* test after the first finds the same pc and registers.
C9_RunsForever ==
    LoopingRun =>
        /\ ctl # "returned"
        /\ ctl = "loop" => (PcInMemory /\ pc < Len(program))
        /\ (program = LoopProgram /\ ctl = "loop" /\ cycles > 0) =>
              (pc = 0 /\ registers = [i \in 0 .. NumRegs - 1 |->
                                            IF i = 0 THEN 1 ELSE 0])

\* C9's case: JALR x0,x0,0 has been fetched more often than the memory has
\* words.
C9_Witness ==
    /\ LoopingRun
    /\ program = LoopProgram
    /\ ctl = "loop"
    /\ cycles > MemSize

\* C10, as stated: for a JAL word, instruction bits[19:12] are immediate
\* bits[19:12], bit[20] is immediate bit[11], bits[30:21] are immediate
\* bits[10:1], and bit[31] is immediate bit[20] and every bit above it.
C10_JalImmediateLayout ==
    (ctl = "decoded" /\ dec.opcode = JAL) =>
        /\ \A k \in 12 .. 19 : Bit(dec.imm, k) = Bit(instruction, k)
        /\ Bit(dec.imm, 11) = Bit(instruction, 20)
        /\ \A k \in 1 .. 10 : Bit(dec.imm, k) = Bit(instruction, k + 20)
        /\ \A k \in 20 .. 31 : Bit(dec.imm, k) = Bit(instruction, 31)

\* C11, as stated: bit 0 of the immediate decode produces for a JAL word is
\* zero, and a JAL changes pc by an even offset.
C11_JalImmediateEven ==
    /\ (ctl = "decoded" /\ dec.opcode = JAL) => Bit(dec.imm, 0) = 0
    /\ (ctl = "loop" /\ cycles > 0 /\ dec.opcode = JAL) =>
            (pc - (fetchIdx + 1)) % 2 = 0

\* The step is the execution of the decoded instruction.
ExecuteStep == ctl = "decoded" /\ ctl' = "loop"

\* C12: a JAL fetched at index p with decoded immediate imm leaves
\* R[rd] = p + 1 and pc = (p + 1 + imm) mod 2^32, and changes no register
\* other than rd.
C12_JalEffect ==
    [][(ExecuteStep /\ dec.opcode = JAL) =>
        /\ pc = fetchIdx + 1
        /\ registers'[dec.rd] = fetchIdx + 1
        /\ pc' = Add32(fetchIdx + 1, dec.imm)
        /\ (dec.imm >= 0 => pc' = fetchIdx + 1 + dec.imm)
        /\ \A r \in 0 .. NumRegs - 1 : r # dec.rd => registers'[r] = registers[r]]_vars

\* C12's case: a JAL fetched at index 2, with an immediate that is not 0 and
\* registers that are not all zero, has been executed.
C12_Witness ==
    /\ ctl = "loop"
    /\ cycles = 3
    /\ fetchIdx = 2
    /\ dec.opcode = JAL
    /\ dec.imm = 8
    /\ dec.rd = 1
    /\ registers[1] = 3
    /\ registers[0] = 5
    /\ pc = 11

\* Bits[31:20] of a word as a signed 12-bit number (the I-type immediate).
ImmI(w) ==
    LET n == Hi(w) \div 16
    IN  IF n >= 2048 THEN n - 4096 ELSE n

\* C13, as stated: a JALR fetched at index p, with any rd and rs1 (also
\* rd = rs1), leaves R[rd] = p + 1 and pc = (v + imm) mod 2^32 with the low
\* bit cleared, v being the value of R[rs1] before the instruction.
C13_JalrEffect ==
    [][(ExecuteStep /\ dec.opcode = JALR) =>
        /\ registers'[dec.rd] = fetchIdx + 1
        /\ pc' = And32(Add32(registers[dec.rs1], ImmI(instruction)), -2)]_vars

\* C14: an ALU_IMM word with funct3 = 000 (ADDI) leaves R[rd] = (R[rs1] + imm)
\* mod 2^32, imm being bits[31:20] sign-extended, and every other register as
\* it was; 0x00500113 on all-zero registers gives R[2] = 5 and the rest 0.
C14_AddiEffect ==
    [][/\ (ExecuteStep /\ dec.opcode = ALU_IMM /\ dec.funct3 = 0) =>
            /\ registers' = [registers EXCEPT
                                ![dec.rd] = Add32(registers[dec.rs1], ImmI(instruction))]
            /\ pc' = pc
       /\ (ExecuteStep /\ instruction = 5243155
                /\ registers = [i \in 0 .. NumRegs - 1 |-> 0]) =>
            registers' = [i \in 0 .. NumRegs - 1 |-> IF i = 2 THEN 5 ELSE 0]]_vars

\* ADDI x1,x1,-32 has run as the third instruction, on R[1] = 0xFFFFFFFF.
C14_Witness ==
    /\ ctl = "loop" /\ cycles = 3 /\ fetchIdx = 2
    /\ instruction = Enc(127, 0, 1, ADD_SUB, 1, ALU_IMM)
    /\ registers[1] = -33 /\ registers[0] = 5

\* C15: an ALU_REG word with funct3 = 000 leaves R[rd] = (R[rs1] + R[rs2])
\* mod 2^32 for funct7 = 0000000 and (R[rs1] - R[rs2]) mod 2^32 for funct7 =
\* 0100000, with the operands as they were before the cycle (also when rd is
\* rs1 or rs2); with R[2] = 5 and R[3] = 6, ADD x3,x2,x3 gives R[3] = 11 and
\* SUB x3,x3,x2 gives R[3] = 1.
C15_AddSubEffect ==
    [][/\ (ExecuteStep /\ dec.opcode = ALU_REG /\ dec.funct3 = 0 /\ dec.funct7 = 0) =>
            registers' = [registers EXCEPT
                             ![dec.rd] = Add32(registers[dec.rs1], registers[dec.rs2])]
       /\ (ExecuteStep /\ dec.opcode = ALU_REG /\ dec.funct3 = 0 /\ dec.funct7 = 32) =>
            registers' = [registers EXCEPT
                             ![dec.rd] = Sub32(registers[dec.rs1], registers[dec.rs2])]
       /\ (ExecuteStep /\ instruction = 3211699
                /\ registers[2] = 5 /\ registers[3] = 6) => registers'[3] = 11
       /\ (ExecuteStep /\ instruction = Enc(32, 2, 3, ADD_SUB, 3, ALU_REG)
                /\ registers[2] = 5 /\ registers[3] = 6) => registers'[3] = 1
       /\ (ExecuteStep /\ instruction = Enc(0, 0, 1, ADD_SUB, 1, ALU_REG)
                /\ registers[1] = -1 /\ registers[0] = 5) => registers'[1] = 4]_vars

\* SUB x3,x3,x2 has run on R[2] = 5, R[3] = 6 (rd = rs1).
C15_Witness ==
    /\ ctl = "loop" /\ cycles = 3 /\ fetchIdx = 2
    /\ instruction = Enc(32, 2, 3, ADD_SUB, 3, ALU_REG)
    /\ registers[2] = 5 /\ registers[3] = 1

\* A word with its low 12 bits cleared.
Upper20(w) == Word(Hi(w), Lo(w) - (Lo(w) % 4096))

\* C16: a LUI word leaves R[rd] = the word with its low 12 bits cleared; an
\* AUIPC word fetched at index p leaves R[rd] = ((p + 1) + that) mod 2^32; in
\* both cases pc = p + 1 and no other register changes.
C16_UpperImmediateEffect ==
    [][/\ (ExecuteStep /\ dec.opcode = LUI) =>
            /\ registers' = [registers EXCEPT ![dec.rd] = Upper20(instruction)]
            /\ pc' = fetchIdx + 1
       /\ (ExecuteStep /\ dec.opcode = AUIPC) =>
            /\ registers' = [registers EXCEPT
                                ![dec.rd] = Add32(fetchIdx + 1, Upper20(instruction))]
            /\ pc' = fetchIdx + 1]_vars

\* The AUIPC word 0xFE109097 has run at index 2: R[1] = 3 + 0xFE109000.
C16_Witness ==
    /\ ctl = "loop" /\ cycles = 3 /\ fetchIdx = 2 /\ pc = 3
    /\ instruction = Enc(127, 1, 1, 1, 1, AUIPC)
    /\ registers[1] = Word(65040, 36867) /\ registers[0] = 5

\* C17: the rd, rs1 and rs2 handed to execute are in 0..31, and the register
\* array has exactly 32 entries, in every state.
C17_RegisterIndicesInRange ==
    /\ DOMAIN registers = 0 .. 31
    /\ dec.rd \in 0 .. 31
    /\ dec.rs1 \in 0 .. 31
    /\ dec.rs2 \in 0 .. 31

\* A LUI x31 with rs1 and rs2 fields 31 has been executed.
C17_Witness ==
    /\ ctl = "loop" /\ cycles = 1 /\ dec.opcode = LUI
    /\ dec.rd = 31 /\ dec.rs1 = 31 /\ dec.rs2 = 31 /\ registers[31] # 0

\* The first k words of memory hold neither a JAL nor a JALR.
JumpFreePrefix(k) ==
    \A i \in 0 .. k - 1 :
        i < MemSize => decode(MemAt(memory, i)).opcode \notin {JAL, JALR}

\* C18: a cycle whose instruction is neither JAL nor JALR leaves pc one past
\* the fetched index; as long as no JAL or JALR has been fetched, the k-th
\* fetch reads memory[k-1] and pc never decreases.
C18_SequentialFetch ==
    [][/\ (ExecuteStep /\ dec.opcode \notin {JAL, JALR}) => pc' = fetchIdx + 1
       /\ (ctl = "loop" /\ ctl' = "fetched" /\ JumpFreePrefix(cycles)) =>
            /\ fetchIdx' = cycles' - 1
            /\ instruction' = MemAt(memory, cycles' - 1)
       /\ (nruns = 1 /\ JumpFreePrefix(cycles)) => pc' >= pc]_vars

\* The third fetch of a run without jumps has read memory[2].
C18_Witness ==
    /\ ctl = "fetched" /\ cycles = 3 /\ fetchIdx = 2 /\ JumpFreePrefix(3)
    /\ instruction = MemAt(memory, 2) /\ instruction # 0

\* C19: after a JALR cycle pc is even, and the index fetched next after a
\* JALR is even (an odd index is never fetched as a JALR target).
C19_JalrTargetEven ==
    /\ (ctl = "loop" /\ cycles > 0 /\ dec.opcode = JALR) => pc % 2 = 0
    /\ (ctl = "returned" /\ cycles > 0 /\ dec.opcode = JALR) => pc % 2 = 0
    /\ (ctl = "fetched" /\ cycles > 1 /\ dec.opcode = JALR) => fetchIdx % 2 = 0

\* After the prefix (R[0] = 5), JALR x1,x0,0 at index 2 has jumped to
\* (5 + 0) & ~1 = 4, and index 4 has been fetched.
C19_Witness ==
    /\ ctl = "fetched" /\ cycles = 4 /\ dec.opcode = JALR
    /\ prevIdx = 2 /\ fetchIdx = 4 /\ registers[0] = 5 /\ registers[1] = 3

====
